---- MODULE Spec2Model ----
(***************************************************************************)
(* A model of sglang's CustomAllreduce coordinator                         *)
(* (python/sglang/srt/distributed/device_communicators/                    *)
(* custom_all_reduce.py): the constructor's topology negotiation, the      *)
(* shared-buffer exchange, per-call dispatch, the capture context manager, *)
(* the graph-buffer registrar and teardown.                                *)
(*                                                                         *)
(* Python lists indexed by rank are functions over 0..n-1.  External       *)
(* collaborators (torch.distributed, the CUDA runtime, NVML, the native    *)
(* engine `ops`) are modelled by the answers they give, drawn from small   *)
(* sets, and by logs of the calls the coordinator makes on them.           *)
(***************************************************************************)
EXTENDS Integers, Sequences, FiniteSets, TLC

\* ------------------------------------------------------------------ bounds
\* Largest world size of a group the model draws.
MaxWorld == 4
\* Largest difference between a process's global rank and its rank in the group.
MaxRankOffset == 1
\* Explicit close() calls a caller makes (the destructor's close() comes on top).
MaxCloses == 2
\* Capture sessions a caller opens on one coordinator.
MaxSessions == 2
\* Direct register_graph_buffers() calls a caller makes (SpecApi only).
MaxDirectPasses == 1
\* Ranks of the group in the shared-buffer exchange (SpecExchange).
ExchangeWorld == 3
\* Values a rank writes into its local slot (SpecExchange).
MaxValue == 1
\* Ranks of the group in the registrar pass (SpecRegistrar).
RegistrarWorld == 3
\* Ranks of the group whose processes all run the constructor (SpecGroup).
GroupWorld == 4

\* ------------------------------------------------------- program constants
\* (mutant) every size from 2 to 8 taken as supported
SupportedUpToEight == 2..8
_SUPPORTED_WORLD_SIZES == {2, 4, 6, 8}
DefaultMaxSize == 8192 * 1024
max_required_workspace_size == [i \in 0..1 |-> IF i = 0 THEN 16 * 1024 * 1024 ELSE 8 * 1024 * 1024]
barrier_max_size == 8 * (36 + 2) * 8
\* The four symmetric regions, in the order the constructor creates them.
RegionNames == <<"buffer_ptrs", "tmp_result_buffer_ptrs", "barrier_in_ptrs", "barrier_out_ptrs">>
NumRegions == Len(RegionNames)

\* ---------------------------------------------------------------- helpers
Range(n) == 0..(n - 1)
ListLen(l) == Cardinality(DOMAIN l)
EmptyList == [i \in {} |-> 0]

\* ------------------------------------------------- CUDA runtime / IPC model
\* A device address is valid in one process and backed by one allocation; an
\* allocation is named by the process that made it and the region it is for.
cudaMalloc(proc, region) == [proc |-> proc, alloc |-> <<proc, region>>]
\* The exportable token of an allocation: it names the allocation, not the
\* exporter's address.
cudaIpcGetMemHandle(pointer) == [ipc |-> pointer.alloc]
\* Opening a token in process `proc` yields an address of that process mapped
\* onto the exporter's allocation.
cudaIpcOpenMemHandle(proc, h) == [proc |-> proc, alloc |-> h.ipc]
\* Whether an address is the process's own allocation (what cudaFree accepts).
IsLocalAllocation(addr) == addr.alloc[1] = addr.proc

\* (mutant) every remote slot opened from the rank's own handle
PointerTableOwnHandle(rank, pointer, handles) ==
  [i \in DOMAIN handles |->
     IF i = rank THEN pointer ELSE cudaIpcOpenMemHandle(rank, handles[rank])]

\* create_shared_buffer, after the all-gather: the pointer table of `rank`
\* from its own pointer and the gathered handles.
PointerTable(rank, pointer, handles) ==
  [i \in DOMAIN handles |->
     IF i = rank THEN pointer ELSE cudaIpcOpenMemHandle(rank, handles[i])]

\* ------------------------------------------------------------ NVML probe
Pairs(n) == {p \in Range(n) \X Range(n) : p[1] < p[2]}
\* What the NVML library is drawn to do: nvml.init and nvml.handles say whether
\* nvmlInit and the nvmlDeviceGetHandleByIndex lookups succeed, nvml.status
\* gives each pair's nvmlDeviceGetP2PStatus answer ("OK", "NOK", or "ERR" for a
\* raised NVMLError).
\* The two loops of is_full_nvlink from (i, j) on, after `queries` status
\* queries: the answer, and the queries made by then.
RECURSIVE NvlinkLoop(_, _, _, _, _)
NvlinkLoop(i, j, nvml, n, queries) ==
  IF i >= n THEN [ret |-> "True", queries |-> queries]
  ELSE IF j >= n THEN NvlinkLoop(i + 1, 0, nvml, n, queries)
  ELSE IF ~(i < j) THEN NvlinkLoop(i, j + 1, nvml, n, queries)
  ELSE IF nvml.status[<<i, j>>] = "ERR" THEN [ret |-> "False", queries |-> queries + 1]
  ELSE IF nvml.status[<<i, j>>] # "OK" THEN [ret |-> "False", queries |-> queries + 1]
  ELSE NvlinkLoop(i, j + 1, nvml, n, queries + 1)

\* The body of is_full_nvlink (lines 54-70): the handle lookups are outside
\* the try block, so an error there leaves the function as an exception.
is_full_nvlink_body(nvml, n) ==
  IF ~nvml.handles THEN [ret |-> "raise", queries |-> 0]
  ELSE NvlinkLoop(0, 0, nvml, n, 0)

\* The wrapper of with_nvml_context around a body's outcome: nvmlInit is
\* called before the try block, nvmlShutdown in its finally block.
with_nvml_context(nvml, body) ==
  IF ~nvml.init THEN [ret |-> "raise", inits |-> 0, shutdowns |-> 0, queries |-> 0]
  ELSE [ret |-> body.ret, inits |-> 1, shutdowns |-> 1, queries |-> body.queries]

\* is_full_nvlink as decorated (lines 49-70)
is_full_nvlink(nvml, n) == with_nvml_context(nvml, is_full_nvlink_body(nvml, n))

\* The NVML answers drawn for a group of n devices: at most one pair not OK.
NvmlEnvs(n) ==
  {[init |-> i, handles |-> h, status |-> [p \in Pairs(n) |-> IF p = bad THEN st ELSE "OK"]] :
     i \in BOOLEAN, h \in BOOLEAN, bad \in Pairs(n), st \in {"OK", "NOK", "ERR"}}

\* ------------------------------------------------------------- P2P probe
\* The loop of _can_p2p from peer i on. peerOK[i] is the answer of the check
\* in force for peer i: gpu_p2p_access_check, or the driver's report when
\* SGLANG_SKIP_P2P_CHECK is set.
RECURSIVE CanP2PFrom(_, _, _, _, _)
CanP2PFrom(i, rank, world_size, skip, peerOK) ==
  IF i >= world_size THEN TRUE
  ELSE IF i = rank THEN CanP2PFrom(i + 1, rank, world_size, skip, peerOK)
  ELSE IF skip THEN peerOK[i]
  ELSE IF ~peerOK[i] THEN FALSE
  ELSE CanP2PFrom(i + 1, rank, world_size, skip, peerOK)

_can_p2p(rank, world_size, skip, peerOK) == CanP2PFrom(0, rank, world_size, skip, peerOK)

\* ---------------------------------------------------------------- tensors
\* A tensor: its buffer, element count and size, and its storage layout.
inp_size(inp) == inp.numel * inp.element_size

is_weak_contiguous(inp) ==
  \/ inp.is_contiguous
  \/ inp.storage_nbytes - inp.storage_offset * inp.element_size = inp.numel * inp.element_size

Tensor(buf, numel, esize, contig, nbytes, offset) ==
  [buf |-> buf, numel |-> numel, element_size |-> esize, is_contiguous |-> contig,
   storage_nbytes |-> nbytes, storage_offset |-> offset]

\* A packed contiguous tensor of `bytes` bytes.
Packed(buf, bytes) == Tensor(buf, bytes, 1, TRUE, bytes, 0)

NoTensor == Tensor("-", 0, 1, TRUE, 0, 0)

\* ------------------------------------------------------------------ state
VARIABLES
  env,            \* facts of the platform and the group, fixed before construction
  ranks,          \* the process's rank in the group and in the default group
  pc,             \* "new", "live" (constructor returned), "failed" (it raised), "dead"
  self,           \* the coordinator object's attributes
  probe,          \* what the constructor's probes answered
  session,        \* the caller's position: "none", or "open" inside `with capture()`
  sessionsEnded,  \* capture sessions that have ended
  regPasses,      \* register_graph_buffers passes started
  directPasses,   \* of these, the ones a caller started directly
  ncloses,        \* explicit close() calls made
  disposeCount,   \* ops.dispose calls made
  acquired,       \* whether ops.init_custom_ar returned a handle
  allocs,         \* regions this process allocated with cudaMalloc
  freeLog,        \* the addresses passed to cudaFree, in order
  last,           \* the last operation: its inputs, result and external calls
  xpc,            \* SpecExchange: each rank's position in create_shared_buffer
  xptr,           \* SpecExchange: each rank's own allocation
  gathered,       \* SpecExchange: the handles contributed to the all-gather
  xtable,         \* SpecExchange: each rank's returned pointer table
  mem,            \* SpecExchange: the contents of each allocation
  rpc,            \* SpecRegistrar: each rank's position in register_graph_buffers
  all_data,       \* SpecRegistrar: each rank's table of rows
  issued,         \* SpecRegistrar: the src of each broadcast a rank has issued
  wire,           \* SpecRegistrar: what the source of the group's i-th broadcast sent
  registered      \* SpecRegistrar: the lists each rank passed to the native engine

coordVars == <<env, ranks, pc, self, probe, session, sessionsEnded, regPasses, directPasses,
               ncloses, disposeCount, acquired, allocs, freeLog, last>>
xVars == <<xpc, xptr, gathered, xtable, mem>>
rVars == <<rpc, all_data, issued, wire, registered>>
vars == <<coordVars, xVars, rVars>>

\* The handle ops.init_custom_ar returns: an opaque non-zero pointer.
EngineHandle == 1

\* The attributes __init__ sets before its first return.
NewObject ==
  [IS_CAPTURING |-> FALSE, disabled |-> TRUE, attrs |-> {"_IS_CAPTURING", "disabled"},
   ptr |-> 0, rank |-> 0, world_size |-> 0, full_nvlink |-> FALSE, max_size |-> 0,
   regions |-> [k \in 1..NumRegions |-> EmptyList]]

\* The NVML calls made: sessions opened and shut down, pair queries.
NoNvml == [inits |-> 0, shutdowns |-> 0, queries |-> 0]

NoProbe == [nvlink |-> "unread", p2p |-> "unread", is_cuda |-> "unread", nvml |-> NoNvml]

\* The record of one operation. engine: the calls made on the native engine;
\* bcast: the sources of the broadcasts issued; coll: the other collectives
\* issued; frees: the addresses passed to cudaFree.
Call(op, inp, recording, capturing, ret, raised, engine, bcast, coll, frees) ==
  [op |-> op, inp |-> inp, recording |-> recording, capturing |-> capturing,
   ret |-> ret, raised |-> raised, engine |-> engine, bcast |-> bcast,
   coll |-> coll, frees |-> frees]

NoCall == Call("none", NoTensor, FALSE, FALSE, "void", "", <<>>, <<>>, 0, <<>>)

EngineCall(fn, handle, inp, out) == [fn |-> fn, handle |-> handle, inp |-> inp, out |-> out]

\* The platform and group facts a coordinator can be constructed on.
Envs ==
  [custom_ar : BOOLEAN, backend : {"gloo", "nccl"}, same_node : BOOLEAN,
   world_size : 1..MaxWorld]

\* The answers of dist.get_rank(group) and dist.get_rank() in a group of n
\* ranks: the rank in the group is at most the global rank, since a group's
\* ranks are numbered in the order of their global ranks.
RankPairs(n) ==
  {r \in [rank : Range(n), global_rank : Range(n + MaxRankOffset)] :
     r.rank <= r.global_rank /\ r.global_rank <= r.rank + MaxRankOffset}

\* Before the constructor has asked for them.
NoRanks == [rank |-> 0, global_rank |-> 0]

XIdle ==
  /\ xpc = [r \in {} |-> "start"]
  /\ xptr = EmptyList
  /\ gathered = EmptyList
  /\ xtable = EmptyList
  /\ mem = EmptyList

RIdle ==
  /\ rpc = EmptyList
  /\ all_data = EmptyList
  /\ issued = EmptyList
  /\ wire = EmptyList
  /\ registered = EmptyList

Init ==
  /\ env \in Envs
  /\ ranks = NoRanks
  /\ pc = "new"
  /\ self = NewObject
  /\ probe = NoProbe
  /\ session = "none"
  /\ sessionsEnded = 0
  /\ regPasses = 0
  /\ directPasses = 0
  /\ ncloses = 0
  /\ disposeCount = 0
  /\ acquired = FALSE
  /\ allocs = {}
  /\ freeLog = <<>>
  /\ last = NoCall
  /\ XIdle
  /\ RIdle

\* ------------------------------------------------------------ construction
\* create_shared_buffer as one rank sees it when every peer takes part: the
\* peers' handles are those of their own allocations for the same region.
create_shared_buffer(rank, world_size, region) ==
  LET pointer == cudaMalloc(rank, region)
      handles == [i \in Range(world_size) |->
                    IF i = rank THEN cudaIpcGetMemHandle(pointer)
                    ELSE cudaIpcGetMemHandle(cudaMalloc(i, region))]
  IN PointerTable(rank, pointer, handles)

\* Lines 199-231: the enabled tail of __init__. failAt = 0: nothing raises;
\* 1..NumRegions: that region's cudaMalloc raises; NumRegions + 1:
\* ops.init_custom_ar raises.
Allocated(failAt) == IF failAt = 0 THEN 1..NumRegions ELSE 1..(failAt - 1)

EnabledTail(s, rank, world_size, full_nvlink, max_size, failAt) ==
  LET done == Allocated(failAt)
      base == [s EXCEPT !.max_size = max_size, !.rank = rank, !.world_size = world_size,
                        !.full_nvlink = full_nvlink,
                        !.regions = [k \in 1..NumRegions |->
                                       IF k \in done
                                       THEN create_shared_buffer(rank, world_size, k)
                                       ELSE EmptyList],
                        !.attrs = @ \cup {"max_size", "rank", "world_size", "full_nvlink",
                                          "max_required_workspace_size", "barrier_max_size"}
                                    \cup {RegionNames[k] : k \in done}
                                    \cup (IF failAt = 0 \/ failAt > 2 THEN {"rank_data_base"} ELSE {})]
  IN IF failAt = 0
     THEN [base EXCEPT !.ptr = EngineHandle, !.attrs = @ \cup {"_ptr"}, !.disabled = FALSE]
     ELSE base

\* (mutant) a full NVLink mesh never required
NvlinkNeverRequired(world_size, full_nvlink) == FALSE
\* (mutant) the NVLink requirement applied only above four ranks
NvlinkRequiredAboveFour(world_size, full_nvlink) == world_size > 4 /\ ~full_nvlink
\* Line 181: the group is refused for want of a full NVLink mesh.
NvlinkMissing(world_size, full_nvlink) == world_size > 2 /\ ~full_nvlink

\* What __init__ leaves behind.
InitDone(s, rk, raised, pr, al, acq, coll) ==
  /\ ranks' = rk
  /\ pc' = IF raised = "" THEN "live" ELSE "failed"
  /\ self' = s
  /\ probe' = pr
  /\ allocs' = al
  /\ acquired' = acq
  /\ last' = Call("__init__", NoTensor, FALSE, FALSE, "void", raised, <<>>, <<>>, coll, <<>>)
  /\ UNCHANGED <<env, session, sessionsEnded, regPasses, directPasses, ncloses,
                 disposeCount, freeLog, xVars, rVars>>

\* CustomAllreduce.__init__, its inputs drawn from the given sets: whether
\* is_cuda() holds, what NVML does, the process's ranks, whether
\* SGLANG_SKIP_P2P_CHECK is set, the peers' P2P answers, and where the enabled
\* tail fails.
ConstructFrom(Cuda, Nvml, Rk, Skip, PeerOK, FailAt) ==
  /\ pc = "new"
  /\ LET s0 == NewObject
         s1 == [s0 EXCEPT !.attrs = @ \cup {"group"}]
         s2 == [s1 EXCEPT !.attrs = @ \cup {"device"}]
         n == env.world_size
     IN
     IF ~env.custom_ar THEN InitDone(s0, NoRanks, "", NoProbe, {}, FALSE, 0)
     ELSE IF env.backend = "nccl" THEN InitDone(s1, NoRanks, "AssertionError", NoProbe, {}, FALSE, 0)
     ELSE IF ~env.same_node THEN InitDone(s1, NoRanks, "", NoProbe, {}, FALSE, 1)
     ELSE IF n = 1 THEN InitDone(s1, NoRanks, "", NoProbe, {}, FALSE, 1)
     ELSE IF n \notin _SUPPORTED_WORLD_SIZES THEN InitDone(s1, NoRanks, "", NoProbe, {}, FALSE, 1)
     ELSE \E cuda \in Cuda :
       IF ~cuda
       THEN InitDone(s2, NoRanks, "AssertionError", [NoProbe EXCEPT !.is_cuda = "False"], {}, FALSE, 2)
       ELSE \E nvml \in Nvml :
         LET q == is_full_nvlink(nvml, n)
             nv == q.ret
             p1 == [NoProbe EXCEPT !.is_cuda = "True", !.nvlink = nv,
                                   !.nvml = [inits |-> q.inits, shutdowns |-> q.shutdowns,
                                             queries |-> q.queries]]
         IN
         IF nv = "raise" THEN InitDone(s2, NoRanks, "NVMLError", p1, {}, FALSE, 2)
         ELSE IF NvlinkMissing(n, nv = "True") THEN InitDone(s2, NoRanks, "", p1, {}, FALSE, 2)
         ELSE \E rk \in Rk, skip \in Skip, peerOK \in PeerOK :
           LET ok == _can_p2p(rk.rank, n, skip, peerOK)
               p2 == [p1 EXCEPT !.p2p = IF ok THEN "True" ELSE "False"]
           IN
           IF ~ok THEN InitDone(s2, NoRanks, "", p2, {}, FALSE, 2)
           ELSE \E failAt \in FailAt :
             InitDone(EnabledTail(s2, rk.rank, n, nv = "True", DefaultMaxSize, failAt),
                      rk, IF failAt = 0 THEN "" ELSE "RuntimeError",
                      p2, Allocated(failAt), failAt = 0,
                      2 + Cardinality(Allocated(failAt)))

\* The constructor called on any platform the group's facts allow.
Construct ==
  ConstructFrom(BOOLEAN, NvmlEnvs(env.world_size), RankPairs(env.world_size), BOOLEAN,
                [Range(env.world_size) -> BOOLEAN], 0..(NumRegions + 1))

\* ----------------------------------------------------------------- dispatch
\* (mutant) sizes at the limit accepted
should_custom_ar_inclusive(s, inp) ==
  IF s.disabled THEN FALSE
  ELSE IF inp_size(inp) % 16 # 0 THEN FALSE
  ELSE IF ~is_weak_contiguous(inp) THEN FALSE
  ELSE IF s.world_size = 2
       THEN inp_size(inp) <= s.max_size /\ inp_size(inp) <= max_required_workspace_size[0]
  ELSE IF s.full_nvlink
       THEN inp_size(inp) <= s.max_size /\ inp_size(inp) <= max_required_workspace_size[1]
  ELSE FALSE

\* CustomAllreduce.should_custom_ar
should_custom_ar(s, inp) ==
  IF s.disabled THEN FALSE
  ELSE IF inp_size(inp) % 16 # 0 THEN FALSE
  ELSE IF ~is_weak_contiguous(inp) THEN FALSE
  ELSE IF s.world_size = 2
       THEN inp_size(inp) < s.max_size /\ inp_size(inp) < max_required_workspace_size[0]
  ELSE IF s.full_nvlink
       THEN inp_size(inp) < s.max_size /\ inp_size(inp) < max_required_workspace_size[1]
  ELSE FALSE

\* What an operation's body yields: its return value, the exception it raised
\* ("" for none) and its calls on the native engine.
Outcome(ret, raised, engine) == [ret |-> ret, raised |-> raised, engine |-> engine]

\* The buffer torch.empty_like allocates.
FreshBuffer == "fresh"

\* CustomAllreduce.all_reduce; out = "None" when the caller supplies no buffer.
all_reduce(s, inp, out) ==
  LET o == IF out = "None" THEN FreshBuffer ELSE out
  IN IF "_ptr" \notin s.attrs
     THEN Outcome("void", "AttributeError", <<>>)
     ELSE Outcome("reduced", "", <<EngineCall("all_reduce", s.ptr, inp.buf, o)>>)

\* (mutant) the warm-up call of a capture session reduces as well
custom_all_reduce_no_warmup(s, inp, recording) ==
  IF s.disabled \/ ~should_custom_ar(s, inp) THEN Outcome("None", "", <<>>)
  ELSE all_reduce(s, inp, "None")

\* CustomAllreduce.custom_all_reduce; recording is the answer of
\* torch.cuda.is_current_stream_capturing().
custom_all_reduce(s, inp, recording) ==
  IF s.disabled \/ ~should_custom_ar(s, inp) THEN Outcome("None", "", <<>>)
  ELSE IF s.IS_CAPTURING
       THEN IF recording THEN all_reduce(s, inp, "None")
            ELSE Outcome("empty_like", "", <<>>)
  ELSE all_reduce(s, inp, "None")

\* CustomAllreduce.register_graph_buffers: the engine calls it makes and the
\* sources of its broadcasts (positions in the sorted list of group ranks).
register_graph_buffers(s) ==
  IF "_ptr" \notin s.attrs
  THEN [raised |-> "AttributeError", engine |-> <<>>, bcast |-> <<>>]
  ELSE [raised |-> "",
        engine |-> <<EngineCall("get_graph_buffer_ipc_meta", s.ptr, "-", "-"),
                     EngineCall("register_graph_buffers", s.ptr, "-", "-")>>,
        bcast |-> [i \in 1..s.world_size |-> i - 1]]

\* ----------------------------------------------------------------- teardown
\* free_shared_buffer(pointers) as close() calls it, with no group: the index
\* is dist.get_rank(group=None), the rank in the default (global) group.
FreeIndex(s, rk) == rk.global_rank

\* The frees of close(), region by region from k on. foreignFail = 0: cudaFree
\* returns for an address that is not the process's own allocation; j > 0: it
\* raises at region j. Yields the addresses passed to cudaFree and the
\* exception that ended the sequence.
RECURSIVE FreeFrom(_, _, _, _, _)
FreeFrom(k, s, rk, foreignFail, log) ==
  IF k > NumRegions THEN [frees |-> log, raised |-> ""]
  ELSE LET pointers == s.regions[k]
           idx == FreeIndex(s, rk)
       IN IF idx >= ListLen(pointers) THEN [frees |-> log, raised |-> "IndexError"]
          ELSE IF ~IsLocalAllocation(pointers[idx]) /\ foreignFail = k
               THEN [frees |-> Append(log, pointers[idx]), raised |-> "RuntimeError"]
          ELSE FreeFrom(k + 1, s, rk, foreignFail, Append(log, pointers[idx]))

\* (mutant) a teardown that also marks the coordinator disabled
close_disabling(s, rk, foreignFail) ==
  IF ~s.disabled /\ s.ptr # 0
  THEN LET f == FreeFrom(1, s, rk, foreignFail, <<>>)
       IN [self |-> IF f.raised = "" THEN [s EXCEPT !.ptr = 0, !.disabled = TRUE] ELSE s,
           engine |-> <<EngineCall("dispose", s.ptr, "-", "-")>>,
           frees |-> f.frees, raised |-> f.raised]
  ELSE [self |-> s, engine |-> <<>>, frees |-> <<>>, raised |-> ""]

\* CustomAllreduce.close: the object it leaves, the engine calls, the frees and
\* the exception raised.
close(s, rk, foreignFail) ==
  IF ~s.disabled /\ s.ptr # 0
  THEN LET f == FreeFrom(1, s, rk, foreignFail, <<>>)
       IN [self |-> IF f.raised = "" THEN [s EXCEPT !.ptr = 0] ELSE s,
           engine |-> <<EngineCall("dispose", s.ptr, "-", "-")>>,
           frees |-> f.frees, raised |-> f.raised]
  ELSE [self |-> s, engine |-> <<>>, frees |-> <<>>, raised |-> ""]

\* ------------------------------------------------------------------ actions
\* The tensors a caller passes: eligible, misaligned, at the size limit, and
\* strided over a larger storage.
Buffers == {"A", "B"}
CallTensors ==
  {Packed("A", 1024), Packed("A", 1000), Packed("A", DefaultMaxSize),
   Tensor("A", 256, 4, FALSE, 4096, 0), Tensor("A", 256, 4, FALSE, 1024, 0)}
\* The tensors of a direct all_reduce call.
ReduceTensors == {Packed("A", 1024), Packed("A", 1000)}

Live == pc = "live"

\* A call of custom_all_reduce(input)
CallCustomAllReduce ==
  /\ Live
  /\ \E inp \in CallTensors, recording \in BOOLEAN :
       LET r == custom_all_reduce(self, inp, recording)
       IN last' = Call("custom_all_reduce", inp, recording, self.IS_CAPTURING,
                       r.ret, r.raised, r.engine, <<>>, 0, <<>>)
  /\ UNCHANGED <<env, ranks, pc, self, probe, session, sessionsEnded, regPasses, directPasses,
                 ncloses, disposeCount, acquired, allocs, freeLog, xVars, rVars>>

\* A call of should_custom_ar(inp)
CallShouldCustomAr ==
  /\ Live
  /\ \E inp \in CallTensors :
       last' = Call("should_custom_ar", inp, FALSE, self.IS_CAPTURING,
                    IF should_custom_ar(self, inp) THEN "True" ELSE "False",
                    "", <<>>, <<>>, 0, <<>>)
  /\ UNCHANGED <<env, ranks, pc, self, probe, session, sessionsEnded, regPasses, directPasses,
                 ncloses, disposeCount, acquired, allocs, freeLog, xVars, rVars>>

\* Entering `with capture():` (lines 273-275)
BeginCapture ==
  /\ Live
  /\ session = "none"
  /\ sessionsEnded < MaxSessions
  /\ session' = "open"
  /\ self' = [self EXCEPT !.IS_CAPTURING = TRUE]
  /\ last' = Call("capture_begin", NoTensor, FALSE, self.IS_CAPTURING, "void", "",
                  <<>>, <<>>, 0, <<>>)
  /\ UNCHANGED <<env, ranks, pc, probe, sessionsEnded, regPasses, directPasses, ncloses,
                 disposeCount, acquired, allocs, freeLog, xVars, rVars>>

\* (mutant) the registrar runs without looking at `disabled`
capture_finally_unguarded(s) ==
  LET s1 == [s EXCEPT !.IS_CAPTURING = FALSE]
  IN [self |-> s1, passes |-> 1, reg |-> register_graph_buffers(s1)]

\* The finally block of capture() (lines 276-279)
capture_finally(s) ==
  LET s1 == [s EXCEPT !.IS_CAPTURING = FALSE]
  IN IF ~s1.disabled
     THEN [self |-> s1, passes |-> 1, reg |-> register_graph_buffers(s1)]
     ELSE [self |-> s1, passes |-> 0,
           reg |-> [raised |-> "", engine |-> <<>>, bcast |-> <<>>]]

\* Leaving the with-block, normally or because its body raised.
EndCapture ==
  /\ Live
  /\ session = "open"
  /\ \E bodyRaised \in BOOLEAN :
       LET f == capture_finally(self)
       IN /\ self' = f.self
          /\ regPasses' = regPasses + f.passes
          /\ last' = Call("capture_end", NoTensor, bodyRaised, self.IS_CAPTURING, "void",
                          IF f.reg.raised # "" THEN f.reg.raised
                          ELSE IF bodyRaised THEN "BodyError" ELSE "",
                          f.reg.engine, f.reg.bcast, 0, <<>>)
  /\ session' = "none"
  /\ sessionsEnded' = sessionsEnded + 1
  /\ UNCHANGED <<env, ranks, pc, probe, directPasses, ncloses, disposeCount, acquired, allocs,
                 freeLog, xVars, rVars>>

\* The effect of one close() call on the object and the external logs.
DoClose(op, foreignFail) ==
  LET c == close(self, ranks, foreignFail)
  IN /\ self' = c.self
     /\ disposeCount' = disposeCount + Len(c.engine)
     /\ freeLog' = freeLog \o c.frees
     /\ last' = Call(op, NoTensor, FALSE, self.IS_CAPTURING, "void", c.raised,
                     c.engine, <<>>, 0, c.frees)

\* An explicit close()
Close ==
  /\ Live
  /\ ncloses < MaxCloses
  /\ \E foreignFail \in 0..NumRegions : DoClose("close", foreignFail)
  /\ ncloses' = ncloses + 1
  /\ UNCHANGED <<env, ranks, pc, probe, session, sessionsEnded, regPasses, directPasses,
                 acquired, allocs, xVars, rVars>>

\* __del__: the object is destroyed, after a constructor that returned or one
\* that raised; what close() raises here is swallowed by the interpreter.
Del ==
  /\ pc \in {"live", "failed"}
  /\ session = "none"
  /\ \E foreignFail \in 0..NumRegions : DoClose("__del__", foreignFail)
  /\ pc' = "dead"
  /\ UNCHANGED <<env, ranks, probe, session, sessionsEnded, regPasses, directPasses, ncloses,
                 acquired, allocs, xVars, rVars>>

\* A direct call of all_reduce(inp, out=out)
CallAllReduce ==
  /\ Live
  /\ \E inp \in ReduceTensors, out \in Buffers \cup {"None"} :
       LET r == all_reduce(self, inp, out)
       IN last' = Call("all_reduce", inp, FALSE, self.IS_CAPTURING,
                       r.ret, r.raised, r.engine, <<>>, 0, <<>>)
  /\ UNCHANGED <<env, ranks, pc, self, probe, session, sessionsEnded, regPasses, directPasses,
                 ncloses, disposeCount, acquired, allocs, freeLog, xVars, rVars>>

\* A direct call of register_graph_buffers()
CallRegisterGraphBuffers ==
  /\ Live
  /\ directPasses < MaxDirectPasses
  /\ LET r == register_graph_buffers(self)
     IN last' = Call("register_graph_buffers", NoTensor, FALSE, self.IS_CAPTURING,
                     "void", r.raised, r.engine, r.bcast, 0, <<>>)
  /\ regPasses' = regPasses + 1
  /\ directPasses' = directPasses + 1
  /\ UNCHANGED <<env, ranks, pc, self, probe, session, sessionsEnded, ncloses, disposeCount,
                 acquired, allocs, freeLog, xVars, rVars>>

\* The coordinator as its callers use it: construction, dispatch, capture
\* sessions, teardown.
Next ==
  \/ Construct
  \/ CallCustomAllReduce
  \/ CallShouldCustomAr
  \/ BeginCapture
  \/ EndCapture
  \/ Close
  \/ Del

Spec == Init /\ [][Next]_vars

\* The same with every public method called directly as well.
NextApi ==
  \/ Next
  \/ CallAllReduce
  \/ CallRegisterGraphBuffers

SpecApi == Init /\ [][NextApi]_vars
\* ------------------------------------------------- eligibility, case by case
\* The max_size arguments a coordinator is constructed with: below, at and
\* above the workspace budgets.
MaxSizes == {1024, DefaultMaxSize, 4 * DefaultMaxSize}

\* The coordinators __init__ can leave behind: the disabled one, and the
\* enabled ones for each supported world size, NVLink answer and max_size.
EligibleObjects ==
  {NewObject} \cup
  {o \in {EnabledTail([NewObject EXCEPT !.attrs = @ \cup {"group", "device"}], 0, n, nv, ms, 0) :
            n \in _SUPPORTED_WORLD_SIZES, nv \in BOOLEAN, ms \in MaxSizes} :
     ~NvlinkMissing(o.world_size, o.full_nvlink)}

\* Byte sizes around each limit, and a few small ones.
EligSizes ==
  {0, 16, 1000, 1008, 1024} \cup
  UNION {{t - 16, t - 8, t, t + 16} : t \in MaxSizes \cup {max_required_workspace_size[i] : i \in 0..1}}

\* Each size as a packed tensor, as a view at an offset that fills its
\* storage, as a strided view over a larger storage, and with 2-byte elements.
EligTensors ==
  UNION {{Packed("A", b),
          Tensor("A", b, 1, FALSE, b + 32, 32),
          Tensor("A", b, 1, FALSE, 2 * b + 64, 0),
          Tensor("A", b \div 2, 2, TRUE, b, 0)} : b \in EligSizes}

InitEligible ==
  /\ self \in EligibleObjects
  /\ env = [custom_ar |-> TRUE, backend |-> "gloo", same_node |-> TRUE,
            world_size |-> IF self.disabled THEN 1 ELSE self.world_size]
  /\ ranks = NoRanks
  /\ pc = "live"
  /\ probe = NoProbe
  /\ session = "none"
  /\ sessionsEnded = 0
  /\ regPasses = 0
  /\ directPasses = 0
  /\ ncloses = 0
  /\ disposeCount = 0
  /\ acquired = ~self.disabled
  /\ allocs = IF self.disabled THEN {} ELSE 1..NumRegions
  /\ freeLog = <<>>
  /\ last = NoCall
  /\ XIdle
  /\ RIdle

\* A call of should_custom_ar(inp) on any of the tensors above
EligCall ==
  /\ Live
  /\ \E inp \in EligTensors :
       last' = Call("should_custom_ar", inp, FALSE, self.IS_CAPTURING,
                    IF should_custom_ar(self, inp) THEN "True" ELSE "False",
                    "", <<>>, <<>>, 0, <<>>)
  /\ UNCHANGED <<env, ranks, pc, self, probe, session, sessionsEnded, regPasses, directPasses,
                 ncloses, disposeCount, acquired, allocs, freeLog, xVars, rVars>>

NextEligible == EligCall

SpecEligible == InitEligible /\ [][NextEligible]_vars

\* --------------------------------------- the exchange across a group's ranks
\* Every rank of a group of ExchangeWorld ranks runs the constructor's
\* create_shared_buffer calls, one per region and in that order; a rank's k-th
\* all_gather_object returns once every rank has contributed its k-th
\* handle. Afterwards a rank may write one value into a local slot.
XRanks == Range(ExchangeWorld)
XRounds == 1..NumRegions
XAllocs == XRanks \X XRounds

XPos(round, at, val) == [round |-> round, at |-> at, val |-> val]

\* Extending a list that is a function over 1..k with one more entry.
Extend(f, k, v) == [i \in (DOMAIN f) \cup {k} |-> IF i = k THEN v ELSE f[i]]

InitExchange ==
  /\ env = [custom_ar |-> TRUE, backend |-> "gloo", same_node |-> TRUE,
            world_size |-> ExchangeWorld]
  /\ ranks = NoRanks
  /\ pc = "new"
  /\ self = NewObject
  /\ probe = NoProbe
  /\ session = "none"
  /\ sessionsEnded = 0
  /\ regPasses = 0
  /\ directPasses = 0
  /\ ncloses = 0
  /\ disposeCount = 0
  /\ acquired = FALSE
  /\ allocs = {}
  /\ freeLog = <<>>
  /\ last = NoCall
  /\ xpc = [r \in XRanks |-> XPos(1, "call", 0)]
  /\ xptr = [r \in XRanks |-> EmptyList]
  /\ gathered = [k \in XRounds |-> EmptyList]
  /\ xtable = [r \in XRanks |-> EmptyList]
  /\ mem = [a \in XAllocs |-> 0]
  /\ RIdle

\* Lines 241-247: rank r allocates, exports the handle and enters the
\* all-gather with it.
XCall(r) ==
  /\ xpc[r].at = "call"
  /\ LET k == xpc[r].round
         pointer == cudaMalloc(r, k)
         handle == cudaIpcGetMemHandle(pointer)
     IN /\ xptr' = [xptr EXCEPT ![r] = Extend(@, k, pointer)]
        /\ gathered' = [gathered EXCEPT ![k] = Extend(@, r, handle)]
        /\ xpc' = [xpc EXCEPT ![r] = XPos(k, "gather", 0)]
  /\ UNCHANGED <<xtable, mem, coordVars, rVars>>

\* Lines 247-256: the all-gather returns on rank r, which builds and returns
\* its pointer table, and goes on to the next region.
XReturn(r) ==
  /\ xpc[r].at = "gather"
  /\ LET k == xpc[r].round
     IN /\ DOMAIN gathered[k] = DOMAIN xpc
        /\ xtable' = [xtable EXCEPT ![r] = Extend(@, k, PointerTable(r, xptr[r][k], gathered[k]))]
        /\ xpc' = [xpc EXCEPT ![r] = IF k < NumRegions THEN XPos(k + 1, "call", 0)
                                      ELSE XPos(k, "done", 0)]
  /\ UNCHANGED <<xptr, gathered, mem, coordVars, rVars>>

\* A store through an address, and a load through one by process `proc`
\* (-1: the address is not one of that process).
Store(m, addr, v) == [m EXCEPT ![addr.alloc] = v]
Load(m, proc, addr) == IF addr.proc = proc THEN m[addr.alloc] ELSE -1

\* Rank r writes a value into its local slot of one region.
XWrite(r) ==
  /\ xpc[r].at = "done"
  /\ \E k \in XRounds, v \in 1..MaxValue :
       /\ mem' = Store(mem, xtable[r][k][r], v)
       /\ xpc' = [xpc EXCEPT ![r] = XPos(k, "wrote", v)]
  /\ UNCHANGED <<xptr, gathered, xtable, coordVars, rVars>>

NextExchange == \E r \in XRanks : XCall(r) \/ XReturn(r) \/ XWrite(r)

SpecExchange == InitExchange /\ [][NextExchange]_vars

\* ------------------------------------------------ the probes, case by case
\* The inputs of the two capability probes: a device list of n devices with
\* what NVML does for it, and a rank with what each peer's access check
\* answers under either setting of SGLANG_SKIP_P2P_CHECK.
ProbeEnvs ==
  UNION {[custom_ar : {TRUE}, backend : {"gloo"}, same_node : {TRUE}, world_size : {n},
          nvml : NvmlEnvs(n), rank : Range(n), skip : BOOLEAN,
          peerOK : [Range(n) -> BOOLEAN]] : n \in 2..MaxWorld}

\* Everything but env and the exchange, as it is before construction.
Unconstructed ==
  /\ ranks = NoRanks
  /\ pc = "new"
  /\ self = NewObject
  /\ probe = NoProbe
  /\ session = "none"
  /\ sessionsEnded = 0
  /\ regPasses = 0
  /\ directPasses = 0
  /\ ncloses = 0
  /\ disposeCount = 0
  /\ acquired = FALSE
  /\ allocs = {}
  /\ freeLog = <<>>
  /\ last = NoCall

InitProbes ==
  /\ env \in ProbeEnvs
  /\ Unconstructed
  /\ XIdle
  /\ RIdle

\* A call of is_full_nvlink(physical_device_ids)
QueryFullNvlink ==
  /\ pc = "new"
  /\ LET q == is_full_nvlink(env.nvml, env.world_size)
     IN /\ probe' = [probe EXCEPT !.nvlink = q.ret,
                                  !.nvml = [inits |-> q.inits, shutdowns |-> q.shutdowns,
                                            queries |-> q.queries]]
        /\ last' = Call("is_full_nvlink", NoTensor, FALSE, FALSE,
                        IF q.ret = "raise" THEN "void" ELSE q.ret,
                        IF q.ret = "raise" THEN "NVMLError" ELSE "", <<>>, <<>>, 0, <<>>)
  /\ pc' = "probed"
  /\ UNCHANGED <<env, ranks, self, session, sessionsEnded, regPasses, directPasses, ncloses,
                 disposeCount, acquired, allocs, freeLog, xVars, rVars>>

\* A call of _can_p2p(rank, world_size)
QueryP2P ==
  /\ pc = "new"
  /\ LET ok == _can_p2p(env.rank, env.world_size, env.skip, env.peerOK)
     IN /\ probe' = [probe EXCEPT !.p2p = IF ok THEN "True" ELSE "False"]
        /\ last' = Call("_can_p2p", NoTensor, FALSE, FALSE,
                        IF ok THEN "True" ELSE "False", "", <<>>, <<>>, 0, <<>>)
  /\ pc' = "probed"
  /\ UNCHANGED <<env, ranks, self, session, sessionsEnded, regPasses, directPasses, ncloses,
                 disposeCount, acquired, allocs, freeLog, xVars, rVars>>

NextProbes ==
  \/ QueryFullNvlink
  \/ QueryP2P

SpecProbes == InitProbes /\ [][NextProbes]_vars

\* ------------------------------------- the constructor's decision, case by case
\* What NVML does for a group of n devices, for the decision: nvmlInit fails
\* or not, and the first pair is OK, not OK or its query raises.
TopologyNvml(n) ==
  {[init |-> i, handles |-> TRUE,
    status |-> [p \in Pairs(n) |-> IF p = <<0, 1>> THEN st ELSE "OK"]] :
     i \in BOOLEAN, st \in {"OK", "NOK", "ERR"}}

\* A group and a platform with every fact the constructor may ask for: the
\* group's facts, whether is_cuda() holds, what NVML does, the process's rank,
\* the P2P setting and answers, and whether ops.init_custom_ar fails.
TopologyEnvs ==
  UNION {[custom_ar : BOOLEAN, backend : {"gloo", "nccl"}, same_node : BOOLEAN,
          world_size : {n}, cuda : BOOLEAN, nvml : TopologyNvml(n),
          rk : {r \in RankPairs(n) : r.global_rank = r.rank}, skip : BOOLEAN,
          peerOK : [Range(n) -> BOOLEAN], failAt : {0, NumRegions + 1}] : n \in 1..MaxWorld}

InitTopology ==
  /\ env \in TopologyEnvs
  /\ Unconstructed
  /\ XIdle
  /\ RIdle

\* The constructor called on the platform env describes.
ConstructOn ==
  ConstructFrom({env.cuda}, {env.nvml}, {env.rk}, {env.skip}, {env.peerOK}, {env.failAt})

NextTopology == ConstructOn

SpecTopology == InitTopology /\ [][NextTopology]_vars

\* ------------------------------------ the registrar across a group's ranks
\* Every rank of an enabled group of RegistrarWorld ranks runs one
\* register_graph_buffers pass. A rank's i-th broadcast_object_list call
\* pairs with every other rank's i-th; the rank whose global rank is the src
\* argument sends the list it passed, the others have theirs overwritten by
\* what was sent, and wait for it.
RRanks == Range(RegistrarWorld)

\* None, and a row of all_data: [handle, offset].
None == "None"
Row(handle, offset) == <<handle, offset>>

\* The offset lists ops.get_graph_buffer_ipc_meta may answer with.
OffsetLists == {<<>>, <<0, 256>>}
\* The IPC handle of rank r's graph buffers.
GraphHandle(r) == <<"graph_ipc", r>>

\* sorted(l) for a list of distinct integers
sorted(l) ==
  CHOOSE f \in [DOMAIN l -> {l[i] : i \in DOMAIN l}] :
    /\ \A i, j \in DOMAIN l : i < j => f[i] < f[j]
    /\ {f[i] : i \in DOMAIN l} = {l[i] : i \in DOMAIN l}

\* (mutant) every broadcast with the group's first rank as source
BroadcastSourceFirst(group_ranks, i) == sorted(group_ranks)[0]
\* Lines 289-293: the src of the i-th broadcast
BroadcastSource(group_ranks, i) == sorted(group_ranks)[i]

RPos(at, i, meta) == [at |-> at, i |-> i, meta |-> meta]

InitRegistrar ==
  /\ env \in {[custom_ar |-> TRUE, backend |-> "gloo", same_node |-> TRUE,
                world_size |-> RegistrarWorld,
                group_ranks |-> [i \in RRanks |-> i + o]] : o \in 0..MaxRankOffset}
  /\ Unconstructed
  /\ XIdle
  /\ rpc = [r \in RRanks |-> RPos("meta", 0, Row(None, None))]
  /\ all_data = [r \in RRanks |-> EmptyList]
  /\ issued = [r \in RRanks |-> <<>>]
  /\ wire = EmptyList
  /\ registered = [r \in RRanks |-> EmptyList]

\* Lines 282-289 on rank r: the engine's metadata, the table with the own row
\* set and the others [None, None].
RMeta(r) ==
  /\ rpc[r].at = "meta"
  /\ \E offset \in OffsetLists :
       LET own == Row(GraphHandle(r), offset)
       IN /\ all_data' = [all_data EXCEPT ![r] =
                            [i \in Range(env.world_size) |-> IF i = r THEN own ELSE Row(None, None)]]
          /\ rpc' = [rpc EXCEPT ![r] = RPos("bcast", 0, own)]
  /\ UNCHANGED <<issued, wire, registered, coordVars, xVars>>

\* Lines 290-293 on rank r: its i-th broadcast_object_list(all_data[i], src)
RBroadcast(r) ==
  /\ rpc[r].at = "bcast"
  /\ LET i == rpc[r].i
         src == BroadcastSource(env.group_ranks, i)
         next == IF i + 1 < env.world_size THEN RPos("bcast", i + 1, rpc[r].meta)
                 ELSE RPos("register", i + 1, rpc[r].meta)
     IN /\ IF env.group_ranks[r] = src
           THEN /\ wire' = Extend(wire, i, all_data[r][i])
                /\ UNCHANGED all_data
           ELSE /\ i \in DOMAIN wire
                /\ all_data' = [all_data EXCEPT ![r][i] = wire[i]]
                /\ UNCHANGED wire
        /\ issued' = [issued EXCEPT ![r] = Append(@, src)]
        /\ rpc' = [rpc EXCEPT ![r] = next]
  /\ UNCHANGED <<registered, coordVars, xVars>>

\* Lines 295-297 on rank r: ops.register_graph_buffers(_ptr, handles, offsets)
RRegister(r) ==
  /\ rpc[r].at = "register"
  /\ registered' = [registered EXCEPT ![r] =
                      [i \in DOMAIN all_data[r] |->
                         [handle |-> all_data[r][i][1], offset |-> all_data[r][i][2]]]]
  /\ rpc' = [rpc EXCEPT ![r] = RPos("done", @.i, @.meta)]
  /\ UNCHANGED <<all_data, issued, wire, coordVars, xVars>>

NextRegistrar == \E r \in RRanks : RMeta(r) \/ RBroadcast(r) \/ RRegister(r)

SpecRegistrar == InitRegistrar /\ [][NextRegistrar]_vars

\* ---------------------------------- the constructor across a group's ranks
\* Every rank of a GroupWorld-rank gloo group on one host runs the
\* constructor on a CUDA platform. Each rank asks its own NVML and makes its
\* own P2P checks, whose answers are drawn per rank; a rank that passes them
\* goes on to the four create_shared_buffer exchanges, whose all-gathers
\* return once every rank of the group has contributed.
GRanks == Range(GroupWorld)

InitGroup ==
  /\ env = [custom_ar |-> TRUE, backend |-> "gloo", same_node |-> TRUE,
            world_size |-> GroupWorld]
  /\ Unconstructed
  /\ xpc = [r \in GRanks |-> XPos(0, "init", 0)]
  /\ xptr = [r \in GRanks |-> EmptyList]
  /\ gathered = [k \in XRounds |-> EmptyList]
  /\ xtable = [r \in GRanks |-> EmptyList]
  /\ mem = [a \in GRanks \X XRounds |-> 0]
  /\ RIdle

\* Lines 118-197 on rank r: the decision sequence up to the P2P check. The
\* rank ends "raised" (is_full_nvlink raised), "disabled" (it returned), or
\* goes on to its first create_shared_buffer call.
XNegotiate(r) ==
  /\ xpc[r].at = "init"
  /\ \E nvml \in NvmlEnvs(env.world_size), skip \in BOOLEAN,
        peerOK \in [Range(env.world_size) -> BOOLEAN] :
       LET n == env.world_size
           nv == is_full_nvlink(nvml, n).ret
       IN xpc' = [xpc EXCEPT ![r] =
                    IF n \notin _SUPPORTED_WORLD_SIZES THEN XPos(0, "disabled", 0)
                    ELSE IF nv = "raise" THEN XPos(0, "raised", 0)
                    ELSE IF NvlinkMissing(n, nv = "True") THEN XPos(0, "disabled", 0)
                    ELSE IF ~_can_p2p(r, n, skip, peerOK) THEN XPos(0, "disabled", 0)
                    ELSE XPos(1, "call", 0)]
  /\ UNCHANGED <<xptr, gathered, xtable, mem, coordVars, rVars>>

NextGroup == \E r \in GRanks : XNegotiate(r) \/ XCall(r) \/ XReturn(r)

SpecGroup == InitGroup /\ [][NextGroup]_vars

\* ------------------------------------------------------------------ claims
\* The engine calls of the last operation that are calls of `fn`.
EngineCalls(fn) == {i \in 1..Len(last.engine) : last.engine[i].fn = fn}

\* C1: on a non-fabric single-host group whose world size is not in
\* {2,4,6,8} (1 included), construction ends disabled, and every later
\* custom_all_reduce call, in either capture state, returns None and makes no
\* call on the native engine.
C1_UnsupportedWorldSizeDisabled ==
  (/\ pc # "new"
   /\ env.backend # "nccl"
   /\ env.same_node
   /\ env.world_size \notin {2, 4, 6, 8})
  => /\ pc # "failed"
     /\ self.disabled
     /\ (last.op = "custom_all_reduce" => last.ret = "None" /\ last.engine = <<>>)

\* C1's case: a three-rank gloo group on one host with the native engine
\* present, and a dispatch call made inside a capture session.
C1_Witness ==
  /\ pc = "live"
  /\ env.custom_ar /\ env.backend = "gloo" /\ env.same_node /\ env.world_size = 3
  /\ last.op = "custom_all_reduce" /\ last.capturing /\ last.recording
  /\ last.ret = "None"

\* C4: for an enabled coordinator and an eligible input, a call in state
\* Capturing made while the backend records invokes the native reduce exactly
\* once, one made while it does not record returns a placeholder shaped like
\* the input and makes no engine call, and a call in state Idle always
\* invokes the native reduce exactly once.
C4_DispatchByCaptureState ==
  (/\ last.op = "custom_all_reduce"
   /\ ~self.disabled
   /\ should_custom_ar(self, last.inp))
  => IF last.capturing /\ ~last.recording
     THEN last.ret = "empty_like" /\ last.engine = <<>>
     ELSE /\ last.ret = "reduced"
          /\ Len(last.engine) = 1
          /\ last.engine[1].fn = "all_reduce"
          /\ last.engine[1].inp = last.inp.buf

\* C4's case: a warm-up call of an eligible input inside a capture session.
C4_Witness ==
  /\ last.op = "custom_all_reduce"
  /\ ~self.disabled
  /\ should_custom_ar(self, last.inp)
  /\ last.capturing /\ ~last.recording
  /\ last.ret = "empty_like"

\* C5: every capture session, whether its body returns or raises, leaves the
\* state Idle and runs exactly one registrar pass on an enabled coordinator
\* and none on a disabled one; no pass happens at any other time.
C5_OnePassPerSession ==
  /\ self.IS_CAPTURING <=> session = "open"
  /\ regPasses = IF self.disabled THEN 0 ELSE sessionsEnded
  /\ Cardinality(EngineCalls("register_graph_buffers")) =
       IF last.op = "capture_end" /\ ~self.disabled THEN 1 ELSE 0

\* C5's case: a second session on an enabled coordinator ended by an error in
\* its body.
C5_Witness ==
  /\ ~self.disabled
  /\ sessionsEnded = 2 /\ regPasses = 2
  /\ last.op = "capture_end" /\ last.recording /\ last.capturing
  /\ ~self.IS_CAPTURING
\* The budgets the claim names: for two ranks, and the smaller one for larger
\* fan-ins.
TwoRankBudget == 16 * 1024 * 1024
LargeFanInBudget == 8 * 1024 * 1024

\* The storage test of weak contiguity: the bytes from the view's offset to
\* the end of its storage are exactly the bytes of its elements.
FillsStorage(t) ==
  t.storage_nbytes - t.storage_offset * t.element_size = t.numel * t.element_size

\* C6: should_custom_ar returns true exactly when the coordinator is enabled,
\* the byte size is a multiple of 16, the buffer is contiguous or weakly
\* contiguous, the size is strictly below max_size, and either the world size
\* is 2 and the size is strictly below the 2-rank budget, or the world size is
\* above 2, the mesh is full NVLink and the size is strictly below the smaller
\* budget.
C6_EligibleExactlyWhen ==
  last.op = "should_custom_ar" =>
    LET t == last.inp
        bytes == t.numel * t.element_size
    IN (last.ret = "True") <=>
         /\ ~self.disabled
         /\ bytes % 16 = 0
         /\ (t.is_contiguous \/ FillsStorage(t))
         /\ bytes < self.max_size
         /\ \/ self.world_size = 2 /\ bytes < TwoRankBudget
            \/ self.world_size > 2 /\ self.full_nvlink /\ bytes < LargeFanInBudget

\* C6's case: two ranks, max_size above the 2-rank budget, and a packed
\* tensor of exactly that budget: refused.
C6_Witness ==
  /\ last.op = "should_custom_ar"
  /\ ~self.disabled /\ self.world_size = 2 /\ self.max_size > TwoRankBudget
  /\ last.inp.is_contiguous
  /\ last.inp.numel * last.inp.element_size = TwoRankBudget
  /\ last.ret = "False"
\* C10: once a rank's exchange has returned, its address table has one slot
\* per rank, its own slot is its own local allocation, and every other slot r
\* is a mapping, valid in this process, opened from the handle rank r
\* contributed to that same exchange; so a value rank r wrote into its local
\* slot is what every other rank reads at addresses[r].
C10_SymmetricTable ==
  \A q \in XRanks : \A k \in DOMAIN xtable[q] :
    LET addresses == xtable[q][k]
    IN /\ DOMAIN addresses = XRanks
       /\ addresses[q] = xptr[q][k]
       /\ IsLocalAllocation(addresses[q])
       /\ \A r \in XRanks \ {q} :
            /\ addresses[r].proc = q
            /\ ~IsLocalAllocation(addresses[r])
            /\ [ipc |-> addresses[r].alloc] = gathered[k][r]
            /\ addresses[r].alloc = xptr[r][k].alloc
            /\ (xpc[r].at = "wrote" /\ xpc[r].round = k)
                 => Load(mem, q, addresses[r]) = xpc[r].val

\* C10's case: every rank has finished every exchange, rank 1 has written into
\* its slot of the second region, and rank 0 reads that value there.
C10_Witness ==
  /\ \A q \in XRanks : xpc[q].at \in {"done", "wrote"}
  /\ xpc[1].at = "wrote" /\ xpc[1].round = 2 /\ xpc[1].val = 1
  /\ xpc[0].at = "done"
  /\ Load(mem, 0, xtable[0][2][1]) = 1
\* The close() calls made so far, the destructor's included.
CloseCalls == ncloses + IF pc = "dead" THEN 1 ELSE 0

\* The cudaFree calls made so far on an address of region k.
FreesOfRegion(k) == {i \in 1..Len(freeLog) : freeLog[i].alloc[2] = k}

\* C2: close() is idempotent on an enabled coordinator: over any two or more
\* close() calls (explicit ones and the destructor's) the engine handle is
\* disposed at most once and each of the four regions freed at most once, and
\* the second and later calls change nothing and leave the handle zeroed.
C2_CloseIdempotent ==
  ~self.disabled =>
    /\ disposeCount <= 1
    /\ \A k \in 1..NumRegions : Cardinality(FreesOfRegion(k)) <= 1
    /\ CloseCalls >= 2 =>
         /\ self.ptr = 0
         /\ last.op \in {"close", "__del__"} => last.engine = <<>> /\ last.frees = <<>>

\* The cudaFree calls made so far on the process's own allocation for region k.
FreesOfOwn(k) == {i \in 1..Len(freeLog) : freeLog[i] = cudaMalloc(ranks.rank, k)}

\* C3: by the time the object is destroyed every resource it acquired has
\* been released exactly once: the engine handle, if one was obtained, is
\* disposed once, and each region that was allocated is freed once, also when
\* close() was never called and when construction aborted part-way.
C3_ReleasedExactlyOnce ==
  pc = "dead" =>
    /\ disposeCount = IF acquired THEN 1 ELSE 0
    /\ \A k \in 1..NumRegions :
         Cardinality(FreesOfOwn(k)) = IF k \in allocs THEN 1 ELSE 0

\* C7: every public operation called on a disabled coordinator is a no-op: it
\* raises nothing of its own, calls neither the native engine nor a
\* collective, and frees nothing.
C7_DisabledIsNoOp ==
  (/\ pc = "live"
   /\ self.disabled
   /\ last.op \in {"custom_all_reduce", "should_custom_ar", "all_reduce", "capture_begin",
                   "capture_end", "register_graph_buffers", "close"})
  => /\ last.raised \in {"", "BodyError"}
     /\ last.engine = <<>>
     /\ last.bcast = <<>>
     /\ last.coll = 0
     /\ last.frees = <<>>

\* C9: teardown frees only the local rank's own slot: a close() that tears
\* down calls cudaFree on exactly addresses[rank] of each of the four regions,
\* rank being the rank within the coordinator's group, and no address ever
\* freed is a mapping of another rank's allocation.
C9_FreesOwnSlotOnly ==
  /\ \A i \in 1..Len(freeLog) : IsLocalAllocation(freeLog[i])
  /\ (last.op \in {"close", "__del__"} /\ last.engine # <<>>) =>
       last.frees = [k \in 1..NumRegions |-> self.regions[k][ranks.rank]]
\* The configurations the claim calls unsupported, as the constructor meets
\* them: an NCCL group, a cross-host group, world size 1 or another
\* unsupported size, more than 2 ranks without a full NVLink mesh, no P2P.
UnsupportedConfiguration ==
  \/ env.backend = "nccl"
  \/ ~env.same_node
  \/ env.world_size \notin {2, 4, 6, 8}
  \/ probe.nvlink = "False" /\ env.world_size > 2
  \/ probe.p2p = "False"

FullMesh == \A p \in Pairs(env.world_size) : env.nvml.status[p] = "OK"

\* Whether some part of the topology query fails: the session's
\* initialisation, a device-handle lookup, or a pair's status query.
QueryFails ==
  \/ ~env.nvml.init
  \/ ~env.nvml.handles
  \/ \E p \in Pairs(env.world_size) : env.nvml.status[p] = "ERR"

\* C11: is_full_nvlink is fail-closed and leak-free: whatever fails in the
\* topology query (session initialisation, device-handle lookup, a pair's
\* status query), the call returns False and raises nothing; it returns True
\* only when nothing fails and every pair is NVLink-OK; and every session it
\* initialised is shut down exactly once.
C11_FailClosedLeakFree ==
  last.op = "is_full_nvlink" =>
    /\ last.raised = ""
    /\ last.ret \in {"True", "False"}
    /\ QueryFails => last.ret = "False"
    /\ last.ret = "True" <=> (~QueryFails /\ FullMesh)
    /\ probe.nvml.shutdowns = probe.nvml.inits
    /\ probe.nvml.inits <= 1

\* The peers of the rank whose access check _can_p2p was called for.
Peers == Range(env.world_size) \ {env.rank}

\* C13: _can_p2p(rank, world_size) returns True exactly when every peer
\* i # rank passes the access check in force, the authoritative check or,
\* with SGLANG_SKIP_P2P_CHECK set, the driver's report; one peer without
\* access makes it return False.
C13_EveryPeerChecked ==
  last.op = "_can_p2p" =>
    (last.ret = "True" <=> \A i \in Peers : env.peerOK[i])
\* C12: the constructor ends enabled exactly when the native engine is
\* available, every rank is on the same host, the world size is in {2,4,6,8},
\* the world size is 2 or the devices are a full NVLink mesh, and _can_p2p is
\* true; in every other case it ends disabled. Stated for a non-NCCL group on
\* a CUDA platform whose allocations and engine initialisation succeed, the
\* setting in which the decision sequence is all that decides.
C12_EnabledExactlyWhen ==
  (/\ pc \in {"live", "failed"}
   /\ env.backend # "nccl"
   /\ env.cuda
   /\ env.failAt = 0)
  => (~self.disabled <=>
        /\ env.custom_ar
        /\ env.same_node
        /\ env.world_size \in {2, 4, 6, 8}
        /\ env.world_size = 2 \/ (FullMesh /\ ~QueryFails)
        /\ _can_p2p(env.rk.rank, env.world_size, env.skip, env.peerOK))
\* C14: one register_graph_buffers pass run by all ranks of a group consists
\* on every rank of exactly world_size broadcasts in ascending rank order, the
\* k-th with the group's k-th rank as source; when a rank has finished, the
\* lists it passed to the native engine have one row per rank, row r being the
\* (handle, offset list) rank r got from its own engine, none left unset, and
\* so the same on every rank.
C14_OneBroadcastPerRank ==
  \A q \in RRanks :
    /\ Len(issued[q]) <= env.world_size
    /\ \A k \in 1..Len(issued[q]) : issued[q][k] = env.group_ranks[k - 1]
    /\ rpc[q].at \in {"register", "done"} => Len(issued[q]) = env.world_size
    /\ rpc[q].at = "done" =>
         /\ DOMAIN registered[q] = RRanks
         /\ \A r \in RRanks :
              /\ registered[q][r].handle # None
              /\ registered[q][r].offset # None
              /\ Row(registered[q][r].handle, registered[q][r].offset) = rpc[r].meta
         /\ \A r \in RRanks : rpc[r].at = "done" => registered[r] = registered[q]

\* C14's case: a group whose global ranks start at 1, every rank has finished
\* its pass, and the ranks' offset lists differ.
C14_Witness ==
  /\ \A q \in RRanks : rpc[q].at = "done"
  /\ env.group_ranks[0] = 1
  /\ registered[0][0].offset # registered[0][1].offset
  /\ registered[2][1] = [handle |-> GraphHandle(1), offset |-> rpc[1].meta[2]]
\* C15: the topology decision is fixed at construction: once the constructor
\* has returned, no operation (dispatch, capture begin and end, registrar
\* pass, close, destruction) changes the disabled flag, and none runs a probe
\* or another negotiation step again: the probes' answers and the NVML
\* sessions stay as construction left them, and no operation issues one of
\* the constructor's collectives.
C15_DecisionFixed ==
  [][pc = "live" =>
       /\ self'.disabled = self.disabled
       /\ probe' = probe
       /\ ranks' = ranks
       /\ last'.op # "__init__"
       /\ last'.coll = 0]_vars

\* C15's case: an enabled coordinator that has been through a capture session
\* and a close() and is then asked to dispatch.
C15_Witness ==
  /\ pc = "live"
  /\ ~self.disabled /\ probe.p2p = "True"
  /\ sessionsEnded >= 1 /\ ncloses >= 1
  /\ last.op = "custom_all_reduce"

\* C16: every call of the native reduce is out-of-place: whichever of
\* custom_all_reduce and all_reduce is called, with or without an output
\* buffer supplied by the caller, the output buffer handed to the native
\* engine is not the input buffer.
C16_ReduceOutOfPlace ==
  \A i \in EngineCalls("all_reduce") : last.engine[i].out # last.engine[i].inp

\* C17: no use after teardown: once close() has completed on an enabled
\* coordinator, no later operation (custom_all_reduce in either capture
\* state, all_reduce, the registrar pass at the end of a capture session)
\* calls the native engine, and custom_all_reduce returns None.
C17_NoUseAfterClose ==
  (/\ pc = "live"
   /\ ~self.disabled
   /\ ncloses >= 1 /\ self.ptr = 0
   /\ last.op \in {"custom_all_reduce", "all_reduce", "capture_end", "register_graph_buffers"})
  => /\ last.engine = <<>>
     /\ last.op = "custom_all_reduce" => last.ret = "None"

\* The path condition of the last return of should_custom_ar (line 322).
FinalIneligibleBranch(s, inp) ==
  /\ ~s.disabled
  /\ inp_size(inp) % 16 = 0
  /\ is_weak_contiguous(inp)
  /\ s.world_size # 2
  /\ ~s.full_nvlink

\* C19: on every enabled coordinator the world size is in {2,4,6,8}, and a
\* world size above 2 implies full_nvlink; so no call of should_custom_ar,
\* direct or from custom_all_reduce, on an enabled coordinator reaches the
\* final ineligible branch.
C19_EnabledInvariant ==
  ~self.disabled =>
    /\ self.world_size \in {2, 4, 6, 8}
    /\ self.world_size > 2 => self.full_nvlink
    /\ last.op \in {"should_custom_ar", "custom_all_reduce"}
         => ~FinalIneligibleBranch(self, last.inp)

\* C19's case: an enabled coordinator of four ranks refuses a tensor in
\* should_custom_ar, for its size.
C19_Witness ==
  /\ ~self.disabled /\ self.world_size = 4 /\ self.full_nvlink
  /\ last.op = "should_custom_ar" /\ last.ret = "False"
  /\ inp_size(last.inp) % 16 = 0 /\ is_weak_contiguous(last.inp)
\* C18: when every rank of a group runs the constructor, with probe answers
\* that may differ between ranks, the ranks agree and none waits forever in a
\* handle exchange: whenever no rank can take a step (and none was ended by
\* an exception), every rank's constructor has terminated, all enabled or all
\* disabled; and the k-th exchange of every rank is about the same region:
\* what rank r contributed to it is the handle of r's allocation for region k.
C18_RanksAgree ==
  /\ (~ENABLED NextGroup /\ \A r \in GRanks : xpc[r].at # "raised")
       => \/ \A r \in GRanks : xpc[r].at = "done"
          \/ \A r \in GRanks : xpc[r].at = "disabled"
  /\ \A k \in DOMAIN gathered : \A r \in DOMAIN gathered[k] :
       gathered[k][r] = cudaIpcGetMemHandle(cudaMalloc(r, k))
====
